---- MODULE Spec2Model ----
(***************************************************************************)
(* STM32BufferedSerial: an interrupt-driven UART port with one inbound and *)
(* one outbound ring buffer.                                               *)
(*                                                                         *)
(* Two execution contexts are modelled.  The application context runs the  *)
(* public operations (begin, read, write, available, readable_len,         *)
(* flushRx, flushTx, registerInstance); each                               *)
(* of them is cut into one step per access to memory that the interrupt    *)
(* context also touches, in program order, and appPc is its position.  The *)
(* interrupt context runs HAL_UART_RxCpltCallback / HAL_UART_TxCpltCallback*)
(* to completion: it preempts the application between any two steps and   *)
(* is never preempted itself.                                              *)
(*                                                                         *)
(* The UART handle (huart) is the state of the transport the code reads    *)
(* and writes: Instance, Lock, gState, RxState, and the number of one-unit *)
(* requests outstanding in each direction.                                 *)
(*                                                                         *)
(* Two ports exist: "serial" on huart, modelled step by step, and "other"  *)
(* on huartB, whose operations run unpreempted.  instance_table_ is shared *)
(* by both, and a completion on either handle is dispatched through it.    *)
(***************************************************************************)
EXTENDS Integers, Sequences, FiniteSets, TLC

\* ---------------------------------------------------------------- bounds
MaxBufSize == 3     \* bufSize ranges over 2..MaxBufSize
MaxBytes == 5       \* bytes moved in one behaviour: delivered by the hardware
                    \* plus handed to write()
MaxRegBytes == 2    \* the same budget where both ports and the registry run

\* ------------------------------------------------------- program constants
MAX_UARTS == 6

ByteVals == {0, 255}            \* sample uint8_t values (lowest, highest)
Uninit == 0 - 2                 \* content of a cell of new uint8_t[n] never written
Peripherals == <<"USART1", "USART2", "USART3", "UART4", "UART5", "USART6">>
nullptr == "nullptr"
Ports == {"serial", "other"}    \* the STM32BufferedSerial objects
Identities == {"USART1", "USART2", "NONE"}  \* huart->Instance of a handle; "NONE"
                                \* is a peripheral outside the six of the table
NoLocals == [data |-> 0, tx |-> 0, arr |-> <<>>, i |-> 0, written |-> 0, inLoop |-> FALSE]

VARIABLES
    bufSize,        \* _rxSize = _txSize
    rxBuf, txBuf,   \* _rxBuf, _txBuf : [0..bufSize-1 -> byte]
    rxHead, rxTail, \* _rxHead, _rxTail
    txHead, txTail, \* _txHead, _txTail
    rxTmp,          \* _rxTmp, the staging cell of the receive in flight
    huart,          \* *_huart
    instance_table, \* instance_table_[MAX_UARTS]: a port or nullptr
    other,          \* the members of port "other"
    huartB,         \* *other._huart
    lastReg,        \* history: the port of the latest registerInstance call
                    \* (the constructors' included) per identity, or nullptr
    lateReg,        \* history: how registerInstance found reception when it
                    \* was called after begin(): "no" (not so called),
                    \* "armed", "missed" (no receive request outstanding)
    appPc,          \* position of the application context
    loc,            \* locals of the operation in progress
    lastOp, lastRet,\* the operation that returned last and its result
    rxArrived,      \* history: bytes of the completions handleRxComplete handled
    rxStored,       \* history: bytes handleRxComplete stored in rxBuf
    rxRead,         \* history: non-negative results of read()
    txAccepted,     \* history: bytes committed by write() (it returns 1)
    txSent,         \* history: bytes dequeued and passed to HAL_UART_Transmit_IT
    wire,           \* history: bytes the transport sent, where observed
    obs             \* observations: about the port, and about the call in
                    \* progress or returned last
                    \*   begun    begin() has returned on a registered port
                    \*   firstOk  the last handleRxComplete re-armed at the first attempt
                    \*   calls    the transport operations of that re-arm, in order
                    \*   mid      a handler ran between the two stores of the
                    \*            flush in progress or returned last
                    \*   flushed  "rx" / "tx": flushRx / flushTx has returned and no
                    \*            handler of that side ran since; "sent": a byte
                    \*            was dequeued since flushTx returned
                    \*   rxPre    a handleRxComplete ran since the call started
                    \*   txPre    a handleTxComplete ran since the call started
                    \*   txEnd    a transmit completed since the call started
                    \*   avail    result of available() if it returned last and no
                    \*            handleRxComplete ran since, else "none"
                    \*   k0, idle0, acc0, arr0   write(data, len): free slots, transport
                    \*            idle, bytes accepted so far, and data, at the call
                    \*   full0, head0, data0     write(byte): outcome of the full
                    \*            check, _txHead at the check, and the byte

portVars == <<bufSize, rxBuf, txBuf, rxHead, rxTail, txHead, txTail, rxTmp>>
appVars  == <<appPc, loc, lastOp, lastRet>>
histVars == <<rxArrived, rxStored, rxRead, txAccepted, txSent, wire>>
regVars  == <<instance_table, other, huartB, lastReg, lateReg>>
vars == <<portVars, huart, regVars, appVars, histVars, obs>>

\* ------------------------------------------------------------- helpers
IsPrefix(s, t) == Len(s) <= Len(t) /\ \A i \in 1..Len(s) : s[i] = t[i]
Min(a, b) == IF a <= b THEN a ELSE b
SeqsUpTo(S, n) == UNION {[1..k -> S] : k \in 0..n}

\* the byte taken as a signed char
WidenU8_signed(b) == IF b % 256 >= 128 THEN (b % 256) - 256 ELSE b % 256

\* uint8_t -> int on return: zero extension
WidenU8(b) == b % 256

\* (index + 1) % size
NextIndex(i, n) == (i + 1) % n

\* --------------------------------------------------------------- registry
PeripheralIndex(inst) ==
    IF \E k \in 1..MAX_UARTS : Peripherals[k] = inst
    THEN (CHOOSE k \in 1..MAX_UARTS : Peripherals[k] = inst) - 1
    ELSE 0 - 1

\* registerInstance(huart, instance) on table, with inst = huart->Instance
registerInstance(table, inst, instance) ==
    IF PeripheralIndex(inst) >= 0
    THEN [table EXCEPT ![PeripheralIndex(inst)] = instance]
    ELSE table

\* every handle looked up in the first slot
fromHandle_firstSlot(table, inst) == table[0]

\* fromHandle(huart) on table, with inst = huart->Instance
fromHandle(table, inst) ==
    IF PeripheralIndex(inst) >= 0 THEN table[PeripheralIndex(inst)] ELSE nullptr

\* ------------------------------------------------ transport (HAL) requests
\* A one-unit request is taken only when the direction is idle and the
\* handle is not locked; otherwise the caller gets HAL_BUSY.  Taking a
\* request locks the handle, marks the direction busy and unlocks again.
HAL_LOCK(h) == [h EXCEPT !.Lock = TRUE]

HAL_UNLOCK(h) == [h EXCEPT !.Lock = FALSE]

CanReceive(h) == h.RxState = "READY" /\ ~h.Lock

CanTransmit(h) == h.gState = "READY" /\ ~h.Lock

StartReceive(h) == HAL_UNLOCK([h EXCEPT !.RxState = "BUSY_RX", !.rxReq = @ + 1])

StartTransmit(h) == HAL_UNLOCK([h EXCEPT !.gState = "BUSY_TX", !.txReq = @ + 1])

HAL_UART_Receive_IT(h) ==
    IF CanReceive(h)
    THEN [ok |-> TRUE,  h |-> StartReceive(HAL_LOCK(h))]
    ELSE [ok |-> FALSE, h |-> h]

HAL_UART_Transmit_IT(h) ==
    IF CanTransmit(h)
    THEN [ok |-> TRUE,  h |-> StartTransmit(HAL_LOCK(h))]
    ELSE [ok |-> FALSE, h |-> h]

HAL_UART_AbortReceive(h) == [h EXCEPT !.RxState = "READY", !.rxReq = 0]

\* ------------------------------------------------------------------- Init
\* The state after the constructor: indices 0, buffers allocated but not
\* written, each port registered iff its huart->Instance is a known
\* peripheral.  Port "other" has the same buffer size; other.moved counts
\* the bytes it has been given.
Init ==
    /\ bufSize \in 2..MaxBufSize
    /\ rxBuf = [i \in 0..(bufSize - 1) |-> Uninit]
    /\ txBuf = [i \in 0..(bufSize - 1) |-> Uninit]
    /\ rxHead = 0 /\ rxTail = 0
    /\ txHead = 0 /\ txTail = 0
    /\ rxTmp = 0
    /\ \E inst \in {"USART1", "NONE"} :
         /\ huart = [Instance |-> inst, Lock |-> FALSE, gState |-> "READY",
                     RxState |-> "READY", rxReq |-> 0, txReq |-> 0]
         /\ instance_table =
                registerInstance(
                    registerInstance([k \in 0..(MAX_UARTS - 1) |-> nullptr], inst, "serial"),
                    "USART2", "other")
         /\ lastReg = [e \in Identities |->
                          IF e = inst THEN "serial"
                          ELSE IF e = "USART2" THEN "other" ELSE nullptr]
    /\ huartB = [Instance |-> "USART2", Lock |-> FALSE, gState |-> "READY",
                 RxState |-> "READY", rxReq |-> 0, txReq |-> 0]
    /\ other = [rxBuf |-> [i \in 0..(bufSize - 1) |-> Uninit],
                txBuf |-> [i \in 0..(bufSize - 1) |-> Uninit],
                rxHead |-> 0, rxTail |-> 0, txHead |-> 0, txTail |-> 0,
                rxTmp |-> 0, size |-> bufSize, moved |-> 0]
    /\ lateReg = "no"
    /\ appPc = "idle"
    /\ loc = NoLocals
    /\ lastOp = "none" /\ lastRet = 0
    /\ rxArrived = <<>> /\ rxStored = <<>> /\ rxRead = <<>>
    /\ txAccepted = <<>> /\ txSent = <<>> /\ wire = <<>>
    /\ obs = [begun |-> FALSE, firstOk |-> TRUE, calls |-> <<>>, mid |-> FALSE,
              flushed |-> "none", rxPre |-> FALSE, txPre |-> FALSE,
              txEnd |-> FALSE, avail |-> "none", k0 |-> 0, idle0 |-> TRUE, acc0 |-> 0, arr0 |-> <<>>,
              full0 |-> FALSE, head0 |-> 0, data0 |-> 0]

\* ------------------------------------------------------ interrupt context
\* the re-arm giving up when the first request is refused
Rearm_noRetry(h) ==
    [firstOk |-> HAL_UART_Receive_IT(h).ok,
     h       |-> HAL_UART_Receive_IT(h).h,
     calls   |-> <<"HAL_UART_Receive_IT">>]

\* the re-arm unlocking and aborting whether or not the request was taken
Rearm_alwaysAbort(h) ==
    [firstOk |-> HAL_UART_Receive_IT(h).ok,
     h       |-> HAL_UART_Receive_IT(
                     HAL_UART_AbortReceive(HAL_UNLOCK(HAL_UART_Receive_IT(h).h))).h,
     calls   |-> <<"HAL_UART_Receive_IT", "__HAL_UNLOCK",
                   "HAL_UART_AbortReceive", "HAL_UART_Receive_IT">>]

\* The re-arm at the end of handleRxComplete: a receive request and, if it
\* is refused, unlock, abort and one more request.  calls lists the
\* transport operations performed, in order.
Rearm(h) ==
    LET r1 == HAL_UART_Receive_IT(h)
    IN  [firstOk |-> r1.ok,
         h |-> IF r1.ok
               THEN r1.h
               ELSE HAL_UART_Receive_IT(HAL_UART_AbortReceive(HAL_UNLOCK(r1.h))).h,
         calls |-> IF r1.ok
                   THEN <<"HAL_UART_Receive_IT">>
                   ELSE <<"HAL_UART_Receive_IT", "__HAL_UNLOCK",
                          "HAL_UART_AbortReceive", "HAL_UART_Receive_IT">>]

\* handleRxComplete with the byte stored in the slot after _rxHead
handleRxComplete_storeAtNext(h, tmp) ==
    LET next  == NextIndex(rxHead, bufSize)
        store == next # rxTail
    IN  [rxBuf   |-> IF store THEN [rxBuf EXCEPT ![next] = tmp] ELSE rxBuf,
         rxHead  |-> IF store THEN next ELSE rxHead,
         stored  |-> store,
         firstOk |-> Rearm(h).firstOk,
         calls   |-> Rearm(h).calls,
         h       |-> Rearm(h).h]

\* handleRxComplete without the test for a full buffer
handleRxComplete_noFullTest(h, tmp) ==
    [rxBuf   |-> [rxBuf EXCEPT ![rxHead] = tmp],
     rxHead  |-> NextIndex(rxHead, bufSize),
     stored  |-> TRUE,
     firstOk |-> Rearm(h).firstOk,
     calls   |-> Rearm(h).calls,
     h       |-> Rearm(h).h]

\* handleRxComplete on handle state h with the received byte in _rxTmp:
\* the new rxBuf, rxHead and handle, whether the byte was stored, and
\* whether the first re-arm attempt was accepted.
handleRxComplete(h, tmp) ==
    LET next  == NextIndex(rxHead, bufSize)
        store == next # rxTail
    IN  [rxBuf   |-> IF store THEN [rxBuf EXCEPT ![rxHead] = tmp] ELSE rxBuf,
         rxHead  |-> IF store THEN next ELSE rxHead,
         stored  |-> store,
         firstOk |-> Rearm(h).firstOk,
         calls   |-> Rearm(h).calls,
         h       |-> Rearm(h).h]

\* handleTxComplete reading the byte after advancing _txTail
handleTxComplete_readAfterAdvance(h) ==
    IF txTail # txHead
    THEN [txTail |-> NextIndex(txTail, bufSize),
          passed |-> <<txBuf[NextIndex(txTail, bufSize)]>>,
          h      |-> HAL_UART_Transmit_IT(h).h]
    ELSE [txTail |-> txTail, passed |-> <<>>, h |-> h]

\* handleTxComplete on handle state h: the new txTail and handle, and the
\* bytes dequeued and passed to HAL_UART_Transmit_IT (none or one).
handleTxComplete(h) ==
    IF txTail # txHead
    THEN [txTail |-> NextIndex(txTail, bufSize),
          passed |-> <<txBuf[txTail]>>,
          h      |-> HAL_UART_Transmit_IT(h).h]
    ELSE [txTail |-> txTail, passed |-> <<>>, h |-> h]

\* obj->handleRxComplete() for a port given by its members P, with h = *P._huart
obj_handleRxComplete(P, h) ==
    LET next  == NextIndex(P.rxHead, P.size)
        store == next # P.rxTail
    IN  [P |-> IF store
               THEN [P EXCEPT !.rxBuf[P.rxHead] = P.rxTmp, !.rxHead = next]
               ELSE P,
         h |-> Rearm(h).h]

\* obj->handleTxComplete() for a port given by its members P, with h = *P._huart
obj_handleTxComplete(P, h) ==
    IF P.txTail # P.txHead
    THEN [P |-> [P EXCEPT !.txTail = NextIndex(P.txTail, P.size)],
          h |-> HAL_UART_Transmit_IT(h).h]
    ELSE [P |-> P, h |-> h]

\* The hardware completes the outstanding receive on huart with byte b: it
\* writes b to the cell the request named (_rxTmp of "serial"), ends the
\* receive, and HAL_UART_RxCpltCallback dispatches to the port registered
\* for huart->Instance, if any.
RxCplt(b) ==
    /\ huart.RxState = "BUSY_RX"
    /\ Len(rxArrived) + Len(txAccepted) < MaxBytes
    /\ rxTmp' = b
    /\ LET h0  == [huart EXCEPT !.RxState = "READY", !.rxReq = @ - 1]
           obj == fromHandle(instance_table, h0.Instance)
       IN  IF obj = "serial"
           THEN LET r == handleRxComplete(h0, b)
                IN  /\ rxBuf' = r.rxBuf
                    /\ rxHead' = r.rxHead
                    /\ huart' = r.h
                    /\ rxArrived' = Append(rxArrived, b)
                    /\ rxStored' = IF r.stored THEN Append(rxStored, b) ELSE rxStored
                    /\ obs' = [obs EXCEPT !.rxPre = TRUE,
                                          !.avail = "none",
                                          !.firstOk = r.firstOk,
                                          !.calls = r.calls,
                                          !.mid = (appPc = "frx_head"),
                                          !.flushed = IF @ = "rx" THEN "none" ELSE @]
                    /\ UNCHANGED <<other, huartB>>
           ELSE IF obj = "other"
           THEN LET r == obj_handleRxComplete(other, huartB)
                IN  /\ other' = r.P
                    /\ huartB' = r.h
                    /\ huart' = h0
                    /\ UNCHANGED <<rxBuf, rxHead, rxArrived, rxStored, obs>>
           ELSE /\ huart' = h0
                /\ UNCHANGED <<rxBuf, rxHead, rxArrived, rxStored, obs, other, huartB>>
    /\ UNCHANGED <<bufSize, txBuf, rxTail, txHead, txTail, instance_table,
                   lastReg, lateReg, appVars, rxRead, txAccepted, txSent, wire>>

\* The hardware completes the outstanding transmit on huart: the transport
\* goes idle and HAL_UART_TxCpltCallback dispatches to the port registered
\* for huart->Instance, if any.  The byte that went out is not looked at.
TxCpltBody ==
    /\ huart.gState = "BUSY_TX"
    /\ LET h0  == [huart EXCEPT !.gState = "READY", !.txReq = @ - 1]
           obj == fromHandle(instance_table, h0.Instance)
       IN  IF obj = "serial"
           THEN LET r == handleTxComplete(h0)
                IN  /\ txTail' = r.txTail
                    /\ huart' = r.h
                    /\ txSent' = txSent \o r.passed
                    /\ obs' = [obs EXCEPT !.txPre = TRUE, !.txEnd = TRUE,
                                          !.mid = (appPc \in {"ftx_val", "ftx_head"}),
                                          !.flushed = IF @ = "tx" /\ r.passed # <<>>
                                                      THEN "sent" ELSE @]
                    /\ UNCHANGED <<other, huartB>>
           ELSE IF obj = "other"
           THEN LET r == obj_handleTxComplete(other, huartB)
                IN  /\ other' = r.P
                    /\ huartB' = r.h
                    /\ huart' = h0
                    /\ obs' = [obs EXCEPT !.txEnd = TRUE]
                    /\ UNCHANGED <<txTail, txSent>>
           ELSE /\ huart' = h0
                /\ obs' = [obs EXCEPT !.txEnd = TRUE]
                /\ UNCHANGED <<txTail, txSent, other, huartB>>
    /\ UNCHANGED <<bufSize, rxBuf, txBuf, rxHead, rxTail, txHead, rxTmp,
                   instance_table, lastReg, lateReg, appVars,
                   rxArrived, rxStored, rxRead, txAccepted>>

TxCplt == TxCpltBody /\ UNCHANGED wire

\* The same completion with the byte w the transport sent.  The request
\* named the local `data` of the function that issued it; the transport
\* reads that cell when it services the request, after the function has
\* returned, so w is whatever the cell holds by then.
TxCpltWire(w) == TxCpltBody /\ wire' = Append(wire, w)

\* The hardware completes the outstanding receive on huartB with byte b:
\* it writes b to _rxTmp of "other" and ends the receive;
\* HAL_UART_RxCpltCallback dispatches on huartB->Instance.
RxCpltB(b) ==
    /\ huartB.RxState = "BUSY_RX"
    /\ other.moved < MaxRegBytes
    /\ LET hB0 == [huartB EXCEPT !.RxState = "READY", !.rxReq = @ - 1]
           o0  == [other EXCEPT !.rxTmp = b, !.moved = @ + 1]
           obj == fromHandle(instance_table, hB0.Instance)
       IN  IF obj = "other"
           THEN LET r == obj_handleRxComplete(o0, hB0)
                IN  /\ other' = r.P
                    /\ huartB' = r.h
                    /\ UNCHANGED <<rxBuf, rxHead, huart, rxArrived, rxStored, obs>>
           ELSE IF obj = "serial"
           THEN LET r == handleRxComplete(huart, rxTmp)
                IN  /\ other' = o0
                    /\ huartB' = hB0
                    /\ rxBuf' = r.rxBuf
                    /\ rxHead' = r.rxHead
                    /\ huart' = r.h
                    /\ rxArrived' = Append(rxArrived, rxTmp)
                    /\ rxStored' = IF r.stored THEN Append(rxStored, rxTmp) ELSE rxStored
                    /\ obs' = [obs EXCEPT !.rxPre = TRUE,
                                          !.avail = "none",
                                          !.firstOk = r.firstOk,
                                          !.calls = r.calls]
           ELSE /\ other' = o0
                /\ huartB' = hB0
                /\ UNCHANGED <<rxBuf, rxHead, huart, rxArrived, rxStored, obs>>
    /\ UNCHANGED <<bufSize, txBuf, rxTail, txHead, txTail, rxTmp, instance_table,
                   lastReg, lateReg, appVars, rxRead, txAccepted, txSent, wire>>

\* The hardware completes the outstanding transmit on huartB;
\* HAL_UART_TxCpltCallback dispatches on huartB->Instance.
TxCpltB ==
    /\ huartB.gState = "BUSY_TX"
    /\ LET hB0 == [huartB EXCEPT !.gState = "READY", !.txReq = @ - 1]
           obj == fromHandle(instance_table, hB0.Instance)
       IN  IF obj = "other"
           THEN LET r == obj_handleTxComplete(other, hB0)
                IN  /\ other' = r.P
                    /\ huartB' = r.h
                    /\ UNCHANGED <<txTail, huart, txSent, obs>>
           ELSE IF obj = "serial"
           THEN LET r == handleTxComplete(huart)
                IN  /\ huartB' = hB0
                    /\ txTail' = r.txTail
                    /\ huart' = r.h
                    /\ txSent' = txSent \o r.passed
                    /\ obs' = [obs EXCEPT !.txPre = TRUE]
                    /\ UNCHANGED other
           ELSE /\ huartB' = hB0
                /\ UNCHANGED <<txTail, huart, txSent, obs, other>>
    /\ UNCHANGED <<bufSize, rxBuf, txBuf, rxHead, rxTail, txHead, rxTmp,
                   instance_table, lastReg, lateReg, appVars,
                   rxArrived, rxStored, rxRead, txAccepted, wire>>

\* ---------------------------------------------------- application context
\* Every operation starts from appPc = "idle"; Enter clears the
\* observations of the previous call.
Enter(op) == [obs EXCEPT !.rxPre = FALSE, !.txPre = FALSE, !.txEnd = FALSE,
                         !.mid = IF op \in {"read", "readable_len"} /\ obs.flushed = "rx"
                                 THEN @ ELSE FALSE,
                         !.flushed = IF op \in {"read", "readable_len"} /\ @ = "rx"
                                     THEN @ ELSE "none",
                         !.avail = IF op = "read" /\ lastOp = "available" THEN @ ELSE "none",
                         !.k0 = 0, !.idle0 = TRUE, !.acc0 = 0, !.arr0 = <<>>,
                         !.full0 = FALSE, !.head0 = 0, !.data0 = 0]

\* while an operation is in progress there is no last result
Call == lastOp' = "none" /\ lastRet' = 0

Return(op, r) ==
    /\ appPc' = "idle"
    /\ loc' = NoLocals
    /\ lastOp' = op
    /\ lastRet' = r

\* begin() -> _startRxInterrupt() -> HAL_UART_Receive_IT(_huart, &_rxTmp, 1)
begin_call ==
    /\ appPc = "idle"
    /\ IF CanReceive(huart)
       THEN /\ huart' = HAL_LOCK(huart)
            /\ appPc' = "begin_arm"
            /\ obs' = Enter("begin")
            /\ Call
            /\ UNCHANGED loc
       ELSE /\ Return("begin", 0)
            /\ obs' = [Enter("begin") EXCEPT
                          !.begun = @ \/ fromHandle(instance_table, huart.Instance) = "serial"]
            /\ UNCHANGED huart
    /\ UNCHANGED <<portVars, regVars, histVars>>

begin_arm ==
    /\ appPc = "begin_arm"
    /\ huart' = StartReceive(huart)
    /\ Return("begin", 0)
    /\ obs' = [obs EXCEPT !.begun = @ \/ fromHandle(instance_table, huart.Instance) = "serial"]
    /\ UNCHANGED <<portVars, regVars, histVars>>

\* read() is called
read_call ==
    /\ appPc = "idle"
    /\ appPc' = "read_chk"
    /\ obs' = Enter("read")
    /\ Call
    /\ UNCHANGED <<portVars, huart, regVars, loc, histVars>>

\* if (_rxTail == _rxHead) return -1;
read_chk ==
    /\ appPc = "read_chk"
    /\ IF rxTail = rxHead
       THEN Return("read", 0 - 1)
       ELSE /\ appPc' = "read_load"
            /\ UNCHANGED <<loc, lastOp, lastRet>>
    /\ UNCHANGED <<portVars, huart, regVars, histVars, obs>>

\* uint8_t data = _rxBuf[_rxTail];
read_load ==
    /\ appPc = "read_load"
    /\ loc' = [loc EXCEPT !.data = rxBuf[rxTail]]
    /\ appPc' = "read_adv"
    /\ UNCHANGED <<portVars, huart, regVars, lastOp, lastRet, histVars, obs>>

\* _rxTail = (_rxTail + 1) % _rxSize; return data;
read_adv ==
    /\ appPc = "read_adv"
    /\ rxTail' = NextIndex(rxTail, bufSize)
    /\ Return("read", WidenU8(loc.data))
    /\ rxRead' = Append(rxRead, WidenU8(loc.data))
    /\ UNCHANGED <<bufSize, rxBuf, txBuf, rxHead, txHead, txTail, rxTmp, huart,
                   regVars, rxArrived, rxStored, txAccepted, txSent, obs, wire>>

\* available(): return (_rxHead != _rxTail);
available ==
    /\ appPc = "idle"
    /\ Return("available", rxHead # rxTail)
    /\ obs' = [Enter("available") EXCEPT !.avail = IF rxHead # rxTail THEN "yes" ELSE "no"]
    /\ UNCHANGED <<portVars, huart, regVars, histVars>>

\* readable_len(): if (_rxHead < _rxTail) ...
readable_len_cmp ==
    /\ appPc = "idle"
    /\ obs' = Enter("readable_len")
    /\ appPc' = IF rxHead < rxTail THEN "rl_wrap" ELSE "rl_diff"
    /\ Call
    /\ UNCHANGED <<portVars, huart, regVars, loc, histVars>>

\* the wrapped branch without the buffer size
readable_len_wrap_noSize ==
    /\ appPc = "rl_wrap"
    /\ Return("readable_len", rxHead - rxTail)
    /\ UNCHANGED <<portVars, huart, regVars, histVars, obs>>

\* return static_cast<int>(_rxSize - (_rxTail - _rxHead));
readable_len_wrap ==
    /\ appPc = "rl_wrap"
    /\ Return("readable_len", bufSize - (rxTail - rxHead))
    /\ UNCHANGED <<portVars, huart, regVars, histVars, obs>>

\* else return static_cast<int>(_rxHead - _rxTail);
readable_len_diff ==
    /\ appPc = "rl_diff"
    /\ Return("readable_len", rxHead - rxTail)
    /\ UNCHANGED <<portVars, huart, regVars, histVars, obs>>

\* the loop counting a refused byte as written before it stops
write_return_countRefused(r) ==
    IF ~loc.inLoop
    THEN Return("write", r)
    ELSE IF r = 1 /\ loc.i + 1 < Len(loc.arr)
         THEN /\ loc' = [loc EXCEPT !.i = @ + 1, !.written = @ + 1,
                                    !.data = loc.arr[loc.i + 2]]
              /\ appPc' = "w_chk"
              /\ UNCHANGED <<lastOp, lastRet>>
         ELSE Return("writeN", loc.written + 1)

\* Return of write(uint8_t) with result r: to the application, or into the
\* loop of write(const uint8_t*, uint16_t):
\*   if (write(data[i]) == 1) written++; else break;
write_return(r) ==
    IF ~loc.inLoop
    THEN Return("write", r)
    ELSE IF r = 1 /\ loc.i + 1 < Len(loc.arr)
         THEN /\ loc' = [loc EXCEPT !.i = @ + 1, !.written = @ + 1,
                                    !.data = loc.arr[loc.i + 2]]
              /\ appPc' = "w_chk"
              /\ UNCHANGED <<lastOp, lastRet>>
         ELSE Return("writeN", IF r = 1 THEN loc.written + 1 ELSE loc.written)

\* write(uint8_t data) is called with byte b
write_call(b) ==
    /\ appPc = "idle"
    /\ Len(rxArrived) + Len(txAccepted) < MaxBytes
    /\ loc' = [NoLocals EXCEPT !.data = b]
    /\ appPc' = "w_chk"
    /\ obs' = Enter("write")
    /\ Call
    /\ UNCHANGED <<portVars, huart, regVars, histVars>>

\* write(const uint8_t* data, uint16_t len) is called with array arr
writeN_call(arr) ==
    /\ appPc = "idle"
    /\ Len(rxArrived) + Len(txAccepted) + Len(arr) <= MaxBytes
    /\ obs' = [Enter("writeN") EXCEPT
                  !.k0 = (bufSize - 1) - ((txHead - txTail + bufSize) % bufSize),
                  !.idle0 = (huart.gState = "READY"),
                  !.acc0 = Len(txAccepted),
                  !.arr0 = arr]
    /\ IF Len(arr) = 0
       THEN Return("writeN", 0)
       ELSE /\ loc' = [NoLocals EXCEPT !.arr = arr, !.data = arr[1], !.inLoop = TRUE]
            /\ appPc' = "w_chk"
            /\ Call
    /\ UNCHANGED <<portVars, huart, regVars, histVars>>

\* uint16_t next = (_txHead + 1) % _txSize; if (next == _txTail) return -1;
write_chk ==
    /\ appPc = "w_chk"
    /\ IF NextIndex(txHead, bufSize) = txTail
       THEN write_return(0 - 1)
       ELSE /\ appPc' = "w_store"
            /\ UNCHANGED <<loc, lastOp, lastRet>>
    /\ obs' = IF loc.inLoop THEN obs
              ELSE [obs EXCEPT !.full0 = (NextIndex(txHead, bufSize) = txTail),
                               !.head0 = txHead, !.data0 = loc.data]
    /\ UNCHANGED <<portVars, huart, regVars, histVars>>

\* the byte stored in the slot after _txHead
write_store_atNext ==
    /\ appPc = "w_store"
    /\ txBuf' = [txBuf EXCEPT ![NextIndex(txHead, bufSize)] = loc.data]
    /\ appPc' = "w_head"
    /\ UNCHANGED <<bufSize, rxBuf, rxHead, rxTail, txHead, txTail, rxTmp, huart,
                   regVars, loc, lastOp, lastRet, histVars, obs>>

\* _txBuf[_txHead] = data;
write_store ==
    /\ appPc = "w_store"
    /\ txBuf' = [txBuf EXCEPT ![txHead] = loc.data]
    /\ appPc' = "w_head"
    /\ UNCHANGED <<bufSize, rxBuf, rxHead, rxTail, txHead, txTail, rxTmp, huart,
                   regVars, loc, lastOp, lastRet, histVars, obs>>

\* _txHead = next;
write_head ==
    /\ appPc = "w_head"
    /\ txHead' = NextIndex(txHead, bufSize)
    /\ txAccepted' = Append(txAccepted, loc.data)
    /\ appPc' = "w_gstate"
    /\ UNCHANGED <<bufSize, rxBuf, txBuf, rxHead, rxTail, txTail, rxTmp, huart,
                   regVars, loc, lastOp, lastRet,
                   rxArrived, rxStored, rxRead, txSent, obs, wire>>

\* _startTxInterrupt() called whatever the transport's state
write_gstate_alwaysKick ==
    /\ appPc = "w_gstate"
    /\ appPc' = "st_chk"
    /\ UNCHANGED <<loc, lastOp, lastRet>>
    /\ UNCHANGED <<portVars, huart, regVars, histVars, obs>>

\* if (_huart->gState == HAL_UART_STATE_READY) _startTxInterrupt(); return 1;
write_gstate ==
    /\ appPc = "w_gstate"
    /\ IF huart.gState = "READY"
       THEN /\ appPc' = "st_chk"
            /\ UNCHANGED <<loc, lastOp, lastRet>>
       ELSE write_return(1)
    /\ UNCHANGED <<portVars, huart, regVars, histVars, obs>>

\* _startTxInterrupt(): if (_txTail == _txHead) return;
startTx_chk ==
    /\ appPc = "st_chk"
    /\ IF txTail = txHead
       THEN write_return(1)
       ELSE /\ appPc' = "st_load"
            /\ UNCHANGED <<loc, lastOp, lastRet>>
    /\ UNCHANGED <<portVars, huart, regVars, histVars, obs>>

\* uint8_t data = _txBuf[_txTail];
startTx_load ==
    /\ appPc = "st_load"
    /\ loc' = [loc EXCEPT !.tx = txBuf[txTail]]
    /\ appPc' = "st_tail"
    /\ UNCHANGED <<portVars, huart, regVars, lastOp, lastRet, histVars, obs>>

\* _txTail = (_txTail + 1) % _txSize;
startTx_tail ==
    /\ appPc = "st_tail"
    /\ txTail' = NextIndex(txTail, bufSize)
    /\ appPc' = "st_tx"
    /\ UNCHANGED <<bufSize, rxBuf, txBuf, rxHead, rxTail, txHead, rxTmp, huart,
                   regVars, loc, lastOp, lastRet, histVars, obs>>

\* HAL_UART_Transmit_IT(_huart, &data, 1): the request is made; the handle
\* is locked if the transport takes it
startTx_request ==
    /\ appPc = "st_tx"
    /\ txSent' = Append(txSent, loc.tx)
    /\ IF CanTransmit(huart)
       THEN /\ huart' = HAL_LOCK(huart)
            /\ appPc' = "st_tx2"
            /\ UNCHANGED <<loc, lastOp, lastRet>>
       ELSE /\ write_return(1)
            /\ UNCHANGED huart
    /\ UNCHANGED <<portVars, regVars, rxArrived, rxStored, rxRead,
                   txAccepted, obs, wire>>

\* ... the transmit is started and the handle unlocked; write returns 1
startTx_start ==
    /\ appPc = "st_tx2"
    /\ huart' = StartTransmit(huart)
    /\ write_return(1)
    /\ UNCHANGED <<portVars, regVars, histVars, obs>>

\* flushRx() is called
flushRx_call ==
    /\ appPc = "idle"
    /\ appPc' = "frx_tail"
    /\ obs' = Enter("flushRx")
    /\ Call
    /\ UNCHANGED <<portVars, huart, regVars, loc, histVars>>

\* flushRx leaving _rxTail as it is
flushRx_tail_keep ==
    /\ appPc = "frx_tail"
    /\ appPc' = "frx_head"
    /\ UNCHANGED <<portVars, huart, regVars, loc, lastOp, lastRet, histVars, obs>>

\* _rxHead = _rxTail = 0;  the inner assignment: _rxTail = 0
flushRx_tail ==
    /\ appPc = "frx_tail"
    /\ rxTail' = 0
    /\ appPc' = "frx_head"
    /\ UNCHANGED <<bufSize, rxBuf, txBuf, rxHead, txHead, txTail, rxTmp, huart,
                   regVars, loc, lastOp, lastRet, histVars, obs>>

\* ... the outer assignment: _rxHead = the value of (_rxTail = 0), which
\* is 0, or _rxTail read back where the build reads the volatile again
flushRx_head ==
    /\ appPc = "frx_head"
    /\ \E v \in {0, rxTail} : rxHead' = v
    /\ Return("flushRx", 0)
    /\ obs' = [obs EXCEPT !.flushed = "rx"]
    /\ UNCHANGED <<bufSize, rxBuf, txBuf, rxTail, txHead, txTail, rxTmp, huart,
                   regVars, histVars>>

\* flushTx() is called
flushTx_call ==
    /\ appPc = "idle"
    /\ appPc' = "ftx_tail"
    /\ obs' = Enter("flushTx")
    /\ Call
    /\ UNCHANGED <<portVars, huart, regVars, loc, histVars>>

\* _txHead = _txTail = 0;  the inner assignment: _txTail = 0
flushTx_tail ==
    /\ appPc = "ftx_tail"
    /\ txTail' = 0
    /\ appPc' = "ftx_val"
    /\ UNCHANGED <<bufSize, rxBuf, txBuf, rxHead, rxTail, txHead, rxTmp, huart,
                   regVars, loc, lastOp, lastRet, histVars, obs>>

\* ... its value: 0, or _txTail read back where the build reads the
\* volatile again
flushTx_val ==
    /\ appPc = "ftx_val"
    /\ \E v \in {0, txTail} : loc' = [loc EXCEPT !.i = v]
    /\ appPc' = "ftx_head"
    /\ UNCHANGED <<portVars, huart, regVars, lastOp, lastRet, histVars, obs>>

\* ... the outer assignment: _txHead = that value
flushTx_head ==
    /\ appPc = "ftx_head"
    /\ txHead' = loc.i
    /\ Return("flushTx", 0)
    /\ obs' = [obs EXCEPT !.flushed = "tx"]
    /\ UNCHANGED <<bufSize, rxBuf, txBuf, rxHead, rxTail, txTail, rxTmp, huart,
                   regVars, histVars>>

\* MX_USARTx_UART_Init() of the application: huart->Instance is set.  It
\* comes first in setup(), after the constructor of the global port ran.
MX_USART_UART_Init ==
    /\ appPc = "idle"
    /\ lastOp = "none"
    /\ huart.Instance = "NONE"
    /\ huart' = [huart EXCEPT !.Instance = "USART1"]
    /\ Return("MX_USART_UART_Init", 0)
    /\ obs' = Enter("MX_USART_UART_Init")
    /\ UNCHANGED <<portVars, regVars, histVars>>

\* STM32BufferedSerial::registerInstance(h, p) called by the application,
\* with e = h->Instance.  lateReg records the call that follows begin()
\* on huart while no port was registered for it.
registerInstance_call(e, p) ==
    /\ appPc = "idle"
    /\ instance_table' = registerInstance(instance_table, e, p)
    /\ lastReg' = [lastReg EXCEPT ![e] = p]
    /\ lateReg' = IF /\ lastOp = "begin" /\ p = "serial" /\ e = huart.Instance
                     /\ fromHandle(instance_table, e) = nullptr
                  THEN IF huart.rxReq = 0 THEN "missed" ELSE "armed"
                  ELSE lateReg
    /\ Return("registerInstance", 0)
    /\ obs' = Enter("registerInstance")
    /\ UNCHANGED <<portVars, huart, other, huartB, histVars>>

\* write(uint8_t) on a port given by its members P, with h = *P._huart,
\* run without preemption
obj_write(P, h, b) ==
    LET next == NextIndex(P.txHead, P.size)
    IN  IF next = P.txTail
        THEN [P |-> P, h |-> h]
        ELSE LET P1 == [P EXCEPT !.txBuf[P.txHead] = b, !.txHead = next]
             IN  IF h.gState = "READY" /\ P1.txTail # P1.txHead
                 THEN [P |-> [P1 EXCEPT !.txTail = NextIndex(P1.txTail, P1.size)],
                       h |-> HAL_UART_Transmit_IT(h).h]
                 ELSE [P |-> P1, h |-> h]

\* other.begin(), run without preemption
other_begin ==
    /\ appPc = "idle"
    /\ huartB' = HAL_UART_Receive_IT(huartB).h
    /\ UNCHANGED <<portVars, huart, instance_table, other, lastReg, lateReg,
                   appVars, histVars, obs>>

\* other.write(b), run without preemption
other_write(b) ==
    /\ appPc = "idle"
    /\ other.moved < MaxRegBytes
    /\ LET r == obj_write(other, huartB, b)
       IN  /\ other' = [r.P EXCEPT !.moved = @ + 1]
           /\ huartB' = r.h
    /\ UNCHANGED <<portVars, huart, instance_table, lastReg, lateReg,
                   appVars, histVars, obs>>

\* ------------------------------------------------------------------- Next
\* Both sides together.  The code never inspects a byte, so here the k-th
\* byte in each direction is fixed: 0, 255, 0, 255, ...
Pattern(k) == IF k % 2 = 0 THEN 0 ELSE 255

PatternSeqs == {[i \in 1..n |-> Pattern(Len(txAccepted) + i - 1)] : n \in 0..MaxBytes}

Next ==
    \/ \E b \in {Pattern(Len(rxArrived))} : RxCplt(b)
    \/ TxCplt
    \/ begin_call
    \/ begin_arm
    \/ read_call
    \/ read_chk
    \/ read_load
    \/ read_adv
    \/ available
    \/ readable_len_cmp
    \/ readable_len_wrap
    \/ readable_len_diff
    \/ \E b \in {Pattern(Len(txAccepted))} : write_call(b)
    \/ \E arr \in PatternSeqs : writeN_call(arr)
    \/ write_chk
    \/ write_store
    \/ write_head
    \/ write_gstate
    \/ startTx_chk
    \/ startTx_load
    \/ startTx_tail
    \/ startTx_request
    \/ startTx_start

Spec == Init /\ [][Next]_vars

\* The inbound side alone: the application only receives.
NextRx ==
    \/ \E b \in ByteVals : RxCplt(b)
    \/ begin_call
    \/ begin_arm
    \/ read_call
    \/ read_chk
    \/ read_load
    \/ read_adv
    \/ available
    \/ readable_len_cmp
    \/ readable_len_wrap
    \/ readable_len_diff

SpecRx == Init /\ [][NextRx]_vars

\* The outbound side alone: the application only transmits.
NextTx ==
    \/ TxCplt
    \/ \E b \in ByteVals : write_call(b)
    \/ \E arr \in SeqsUpTo(ByteVals, MaxBytes) : writeN_call(arr)
    \/ write_chk
    \/ write_store
    \/ write_head
    \/ write_gstate
    \/ startTx_chk
    \/ startTx_load
    \/ startTx_tail
    \/ startTx_request
    \/ startTx_start

SpecTx == Init /\ [][NextTx]_vars

\* The inbound side with flushRx.
NextFlushRx ==
    \/ \E b \in {Pattern(Len(rxArrived))} : RxCplt(b)
    \/ begin_call
    \/ begin_arm
    \/ read_call
    \/ read_chk
    \/ read_load
    \/ read_adv
    \/ readable_len_cmp
    \/ readable_len_wrap
    \/ readable_len_diff
    \/ flushRx_call
    \/ flushRx_tail
    \/ flushRx_head

SpecFlushRx == Init /\ [][NextFlushRx]_vars

\* The outbound side, byte by byte, with flushTx.  A flush that leaves the
\* indices apart makes old slots count as queued bytes again, so the bytes
\* passed to the transport are capped as well.
FlushBudget == Len(txSent) < MaxBytes

NextFlushTx ==
    \/ FlushBudget /\ TxCplt
    \/ \E b \in {Pattern(Len(txAccepted))} : write_call(b)
    \/ write_chk
    \/ write_store
    \/ write_head
    \/ write_gstate
    \/ startTx_chk
    \/ startTx_load
    \/ startTx_tail
    \/ startTx_request
    \/ startTx_start
    \/ FlushBudget /\ flushTx_call
    \/ flushTx_tail
    \/ flushTx_val
    \/ flushTx_head

SpecFlushTx == Init /\ [][NextFlushTx]_vars

\* The outbound side, byte by byte, with the bytes on the wire observed.
NextWire ==
    \/ \E w \in ByteVals : TxCpltWire(w)
    \/ \E b \in ByteVals : write_call(b)
    \/ write_chk
    \/ write_store
    \/ write_head
    \/ write_gstate
    \/ startTx_chk
    \/ startTx_load
    \/ startTx_tail
    \/ startTx_request
    \/ startTx_start

SpecWire == Init /\ [][NextWire]_vars

\* Both ports and the registry: "serial" receives and sends byte by byte
\* "other" does the same unpreempted, MaxRegBytes bytes between them.  The
\* application registers any port for any identity, any number of times,
\* until the first byte has gone through a port.
StartUp == rxArrived = <<>> /\ txAccepted = <<>> /\ other.moved = 0

RegBudget == Len(rxArrived) + Len(txAccepted) + other.moved < MaxRegBytes

NextReg ==
    \/ RegBudget /\ \E b \in {Pattern(Len(rxArrived))} : RxCplt(b)
    \/ TxCplt
    \/ RegBudget /\ \E b \in {255} : RxCpltB(b)
    \/ TxCpltB
    \/ begin_call
    \/ begin_arm
    \/ RegBudget /\ \E b \in {Pattern(Len(txAccepted))} : write_call(b)
    \/ write_chk
    \/ write_store
    \/ write_head
    \/ write_gstate
    \/ startTx_chk
    \/ startTx_load
    \/ startTx_tail
    \/ startTx_request
    \/ startTx_start
    \/ other_begin
    \/ RegBudget /\ \E b \in {255} : other_write(b)
    \/ StartUp /\ \E e \in Identities, p \in Ports : registerInstance_call(e, p)

SpecReg == Init /\ [][NextReg]_vars

\* The outbound side, byte by byte, next to begin(), with the scheduling
\* the outbound side relies on: the hardware completes every outstanding
\* transmit, and an operation the application has started runs on to its
\* return.  The application is free to stop calling.
NextDrain ==
    \/ TxCplt
    \/ begin_call
    \/ begin_arm
    \/ \E b \in {Pattern(Len(txAccepted))} : write_call(b)
    \/ write_chk
    \/ write_store
    \/ write_head
    \/ write_gstate
    \/ startTx_chk
    \/ startTx_load
    \/ startTx_tail
    \/ startTx_request
    \/ startTx_start

AppRuns ==
    \/ begin_arm
    \/ write_chk
    \/ write_store
    \/ write_head
    \/ write_gstate
    \/ startTx_chk
    \/ startTx_load
    \/ startTx_tail
    \/ startTx_request
    \/ startTx_start

SpecDrain == Init /\ [][NextDrain]_vars /\ WF_vars(TxCplt) /\ WF_vars(AppRuns)

\* The README's application: setup() runs MX_USARTx_UART_Init(), begin()
\* and registerInstance(&huart, &serial) in that order, once each, and
\* loop() reads.  The hardware delivers bytes whenever a receive is
\* outstanding, and an operation the application has started runs on to
\* its return.
NextLate ==
    \/ MX_USART_UART_Init
    \/ /\ huart.Instance # "NONE"
       /\ lastOp \in {"none", "MX_USART_UART_Init"}
       /\ begin_call
    \/ begin_arm
    \/ lastOp = "begin" /\ registerInstance_call(huart.Instance, "serial")
    \/ \E b \in {Pattern(Len(rxArrived))} : RxCplt(b)
    \/ lastOp \in {"registerInstance", "read"} /\ read_call
    \/ read_chk
    \/ read_load
    \/ read_adv

LateRuns ==
    \/ begin_arm
    \/ read_chk
    \/ read_load
    \/ read_adv

SpecLate ==
    /\ Init /\ [][NextLate]_vars
    /\ WF_vars(\E b \in {Pattern(Len(rxArrived))} : RxCplt(b))
    /\ WF_vars(LateRuns)

\* ================================================================= claims
\* bytes stored and not yet read / accepted and not yet dequeued
RxHeld == Len(rxStored) - Len(rxRead)

TxDequeued == Len(txSent) + (IF appPc = "st_tx" THEN 1 ELSE 0)

TxHeld == Len(txAccepted) - TxDequeued

Registered == fromHandle(instance_table, huart.Instance) = "serial"

\* C1: whatever the interleaving of read() with handleRxComplete(), the
\* non-negative values read() has returned so far are a prefix of the bytes
\* handleRxComplete() stored, in the same order.
C1_InboundFifo == IsPrefix(rxRead, rxStored)

\* a read() that a completion preempted has returned the second byte
C1_Witness ==
    /\ lastOp = "read" /\ lastRet >= 0 /\ obs.rxPre
    /\ Len(rxRead) >= 2

\* C2: whatever the interleaving of write(byte) with handleTxComplete(), the
\* bytes dequeued and passed to transmit requests so far are a prefix of the
\* bytes write() accepted, in the same order.
C2_OutboundInOrder == IsPrefix(txSent, txAccepted)

\* three bytes were passed on, a completion having run during the last write
C2_Witness ==
    /\ lastOp = "write" /\ lastRet = 1 /\ obs.txPre
    /\ Len(txSent) >= 3

\* C3: the four indices are in [0, bufSize), head = tail exactly when the
\* buffer holds no byte, and no buffer holds more than bufSize - 1 bytes.
C3_Capacity ==
    /\ rxHead \in 0..(bufSize - 1) /\ rxTail \in 0..(bufSize - 1)
    /\ txHead \in 0..(bufSize - 1) /\ txTail \in 0..(bufSize - 1)
    /\ (rxHead = rxTail) <=> (RxHeld = 0)
    /\ (txHead = txTail) <=> (TxHeld = 0)
    /\ RxHeld \in 0..(bufSize - 1)
    /\ TxHeld \in 0..(bufSize - 1)
    /\ RxHeld = (rxHead - rxTail + bufSize) % bufSize
    /\ TxHeld = (txHead - txTail + bufSize) % bufSize

\* both buffers are full at once
C3_Witness ==
    /\ RxHeld = bufSize - 1 /\ TxHeld = bufSize - 1
    /\ bufSize >= 3

\* C4: every result of readable_len() is in 0..bufSize-1, also when
\* handleRxComplete() runs between the comparison and the subtraction.
C4_ReadableLenInRange ==
    lastOp = "readable_len" => lastRet \in 0..(bufSize - 1)

\* C5: a readable_len() that no completion preempted returns the number of
\* bytes stored minus the number read, which is (rxHead - rxTail + N) mod N.
C5_ReadableLenExact ==
    (lastOp = "readable_len" /\ ~obs.rxPre) =>
        /\ lastRet = Len(rxStored) - Len(rxRead)
        /\ lastRet = (rxHead - rxTail + bufSize) % bufSize

\* an unpreempted call returned a positive count while rxHead < rxTail
C5_Witness ==
    /\ lastOp = "readable_len" /\ ~obs.rxPre
    /\ rxHead < rxTail
    /\ lastRet > 0

\* the bytes write(data, len) accepted since it was called
AcceptedByCall == SubSeq(txAccepted, obs.acc0 + 1, Len(txAccepted))

\* C6 as stated: with k free slots at the call and no handleTxComplete()
\* during it, write(data, len) returns min(len, k) and accepts exactly the
\* first min(len, k) bytes of data, whether the transport is idle or busy.
C6_PartialWriteAsStated ==
    (lastOp = "writeN" /\ ~obs.txPre) =>
        /\ lastRet = Min(Len(obs.arr0), obs.k0)
        /\ AcceptedByCall = SubSeq(obs.arr0, 1, Min(Len(obs.arr0), obs.k0))

\* C6 amended: with k free slots at the call and no transmit completing
\* during it, the result is min(len, k) when the transport is busy at the
\* call or k = 0, and min(len, k + 1) when the transport is idle and k >= 1
\* (the kick-off of the first byte dequeues a byte); the bytes accepted are
\* the first ones of data, as many as the result says, in order.
C6_PartialWrite ==
    (lastOp = "writeN" /\ ~obs.txEnd) =>
        /\ lastRet = IF obs.idle0 /\ obs.k0 >= 1
                     THEN Min(Len(obs.arr0), obs.k0 + 1)
                     ELSE Min(Len(obs.arr0), obs.k0)
        /\ AcceptedByCall = SubSeq(obs.arr0, 1, lastRet)

\* a write(data, len) on a busy transport stopped short of len
C6_Witness ==
    /\ lastOp = "writeN" /\ ~obs.txEnd /\ ~obs.idle0
    /\ obs.k0 >= 1
    /\ lastRet = obs.k0
    /\ lastRet < Len(obs.arr0)

\* C7: write(byte) returns -1 exactly when (txHead + 1) mod N = txTail at
\* its check, and then changes no index, no stored byte and requests no
\* transmit; otherwise it returns 1, the byte is in the slot txHead pointed
\* to at the check and txHead is one further modulo N.
C7_CheckStep ==
    (appPc = "w_chk" /\ ~loc.inLoop /\ appPc' # "w_chk") =>
        IF NextIndex(txHead, bufSize) = txTail
        THEN /\ appPc' = "idle" /\ lastOp' = "write" /\ lastRet' = 0 - 1
             /\ UNCHANGED <<txHead, txTail, txBuf, txAccepted, txSent, huart>>
        ELSE appPc' = "w_store"

C7_AtReturn ==
    lastOp = "write" =>
        IF obs.full0
        THEN lastRet = 0 - 1
        ELSE /\ lastRet = 1
             /\ txHead = NextIndex(obs.head0, bufSize)
             /\ txBuf[obs.head0] = obs.data0

C7_WriteByte == [][C7_CheckStep]_vars /\ []C7_AtReturn

\* a write(byte) found the buffer full
C7_Witness == lastOp = "write" /\ lastRet = 0 - 1 /\ obs.full0

\* C8: read() returns -1 exactly when rxHead = rxTail at its check, and then
\* changes no index and no stored byte; otherwise it returns the byte at
\* rxTail, a value in 0..255, and advances rxTail by one modulo N; and
\* available() is true exactly when a read() that follows it with no
\* completion in between returns a byte.
C8_ReadStep ==
    /\ (appPc = "read_chk" /\ appPc' # "read_chk") =>
          IF rxHead = rxTail
          THEN /\ appPc' = "idle" /\ lastOp' = "read" /\ lastRet' = 0 - 1
               /\ UNCHANGED <<rxHead, rxTail, rxBuf, txHead, txTail, txBuf>>
          ELSE appPc' = "read_load"
    /\ (appPc = "read_adv" /\ appPc' # "read_adv") =>
          /\ appPc' = "idle" /\ lastOp' = "read"
          /\ lastRet' = rxBuf[rxTail]
          /\ lastRet' \in 0..255
          /\ rxTail' = (rxTail + 1) % bufSize
          /\ UNCHANGED <<rxHead, rxBuf, txHead, txTail, txBuf>>

C8_AvailableThenRead ==
    (lastOp = "read" /\ obs.avail # "none") =>
        (obs.avail = "yes" <=> lastRet >= 0)

C8_Read == [][C8_ReadStep]_vars /\ []C8_AvailableThenRead

\* available() said yes and the read() after it returned the byte 255
C8_Witness == lastOp = "read" /\ lastRet = 255 /\ obs.avail = "yes"

\* C9: once begin() has returned on a registered port, exactly one receive
\* request is outstanding in every state (handleRxComplete() runs to
\* completion within one step), whatever completions have occurred.
C9_ContinuousReception ==
    (obs.begun /\ Registered) => huart.rxReq = 1

\* a completion was dropped on a full buffer, the last completion had its
\* first re-arm refused, and one request is outstanding
C9_Witness ==
    /\ obs.begun /\ Registered
    /\ ~obs.firstOk
    /\ Len(rxArrived) > Len(rxStored)
    /\ huart.rxReq = 1

\* C10: from an empty inbound buffer, after n completions and no read(),
\* the bytes stored are the first min(n, N-1) received and readable_len()
\* is min(n, N-1); a completion on a full buffer changes no index and no
\* stored byte; once read() has returned -1 the buffer is empty and
\* readable_len() is 0; and the next completion is stored and makes
\* available() true.
C10_Fill ==
    rxRead = <<>> =>
        /\ rxStored = SubSeq(rxArrived, 1, Min(Len(rxArrived), bufSize - 1))
        /\ (lastOp = "readable_len" /\ ~obs.rxPre) =>
               lastRet = Min(Len(rxArrived), bufSize - 1)

C10_Drained ==
    /\ (lastOp = "read" /\ ~obs.rxPre /\ lastRet = 0 - 1) =>
           (rxHead = rxTail /\ RxHeld = 0)
    /\ (lastOp = "readable_len" /\ ~obs.rxPre /\ RxHeld = 0) => lastRet = 0
    /\ (lastOp = "available" /\ obs.avail # "none") => (lastRet <=> RxHeld > 0)

C10_CompletionStep ==
    (rxArrived' # rxArrived) =>
        /\ NextIndex(rxHead, bufSize) = rxTail =>
               UNCHANGED <<rxHead, rxTail, rxBuf, rxStored>>
        /\ rxHead = rxTail =>
               /\ rxStored' = Append(rxStored, rxTmp')
               /\ rxBuf'[rxHead] = rxTmp'
               /\ rxHead' # rxTail'

C10_FillDropRecover ==
    []C10_Fill /\ []C10_Drained /\ [][C10_CompletionStep]_vars

\* the buffer was filled, the N-th byte dropped, all N - 1 bytes read, and
\* the byte after the dropped one stored: available() is true
C10_Witness ==
    /\ bufSize >= 3
    /\ Len(rxArrived) = bufSize + 1
    /\ rxStored = SubSeq(rxArrived, 1, bufSize - 1) \o <<rxArrived[bufSize + 1]>>
    /\ Len(rxRead) = bufSize - 1
    /\ lastOp = "available" /\ obs.avail = "yes" /\ lastRet

\* C11: the registry is a map from endpoint identities to ports: for every
\* identity e, one outside the six peripherals included, fromHandle(e) is
\* the port of the latest registerInstance(e, .) call, other identities'
\* registrations leave it alone, and it is null if e was never registered
\* (looked at whenever registerInstance has returned).
C11_RegistryMap ==
    lastOp = "registerInstance" =>
        \A e \in Identities : fromHandle(instance_table, e) = lastReg[e]

\* the members of a port apart from the staging cell: indices and stored bytes
SerialRings == <<rxBuf, txBuf, rxHead, rxTail, txHead, txTail>>

OtherRings == <<other.rxBuf, other.txBuf, other.rxHead, other.rxTail,
                other.txHead, other.txTail>>

\* a completion step on huart, on huartB
CpltA == (\E b \in ByteVals : RxCplt(b)) \/ TxCplt

CpltB == (\E b \in ByteVals : RxCpltB(b)) \/ TxCpltB

\* what the hardware alone does to a handle when a transfer on it ends
Ended(h0, h1) ==
    /\ h1.Lock = h0.Lock
    /\ \/ /\ h1.rxReq = h0.rxReq - 1 /\ h1.RxState = "READY"
          /\ h1.txReq = h0.txReq /\ h1.gState = h0.gState
       \/ /\ h1.txReq = h0.txReq - 1 /\ h1.gState = "READY"
          /\ h1.rxReq = h0.rxReq /\ h1.RxState = h0.RxState

C12_StepA ==
    CpltA =>
        LET p == lastReg[huart.Instance]
        IN  /\ p # "serial" => UNCHANGED SerialRings
            /\ p # "other"  => UNCHANGED <<OtherRings, other.rxTmp>>
            /\ p = nullptr  => Ended(huart, huart') /\ UNCHANGED huartB

C12_StepB ==
    CpltB =>
        LET p == lastReg[huartB.Instance]
        IN  /\ p # "serial" => UNCHANGED <<SerialRings, rxTmp>>
            /\ p # "other"  => UNCHANGED OtherRings
            /\ p = nullptr  => Ended(huartB, huartB') /\ UNCHANGED huart

C13_FlushRx ==
    /\ obs.flushed = "rx" => rxHead = rxTail
    /\ (lastOp = "read" /\ obs.flushed = "rx") => lastRet = 0 - 1
    /\ (lastOp = "readable_len" /\ obs.flushed = "rx") => lastRet = 0

\* a completion stored a byte between the two stores of a flushRx that
\* discarded unread bytes, and the read() after it found nothing
C13_Witness ==
    /\ lastOp = "read" /\ obs.flushed = "rx" /\ obs.mid
    /\ lastRet = 0 - 1
    /\ Len(rxStored) >= Len(rxRead) + 2
    /\ rxStored = rxArrived

\* write(uint8_t) is between its call and its return
WriteRunning ==
    appPc \in {"w_chk", "w_store", "w_head", "w_gstate",
               "st_chk", "st_load", "st_tail", "st_tx", "st_tx2"}

Drained ==
    /\ txHead = txTail
    /\ Len(txSent) = Len(txAccepted)
    /\ huart.gState = "READY" /\ huart.txReq = 0

C16_HandlerStep ==
    rxArrived' # rxArrived =>
        /\ obs'.firstOk = ~huart.Lock
        /\ obs'.firstOk =>
               obs'.calls = <<"HAL_UART_Receive_IT">>
        /\ ~obs'.firstOk =>
               /\ obs'.calls = <<"HAL_UART_Receive_IT", "__HAL_UNLOCK",
                                 "HAL_UART_AbortReceive", "HAL_UART_Receive_IT">>
               /\ ~huart'.Lock
        /\ huart'.rxReq = 1 /\ huart'.RxState = "BUSY_RX"

\* C16: when the first re-arm attempt in handleRxComplete() is refused
\* (the handle is locked, the receive itself has just ended) the handler
\* unlocks, aborts the receive and asks once more; when it is accepted the
\* handler does none of that; either way exactly one inbound request is
\* outstanding when the handler returns.
C16_BusyRecovery == [][C16_HandlerStep]_vars

\* the handler has just recovered from a refusal: it preempted
\* _startTxInterrupt inside HAL_UART_Transmit_IT, which held the lock
C16_Witness ==
    /\ obs.rxPre /\ ~obs.firstOk /\ Len(obs.calls) = 4
    /\ appPc = "st_tx2" /\ ~huart.Lock
    /\ huart.rxReq = 1

\* the context a step belongs to: every step of the application that
\* writes an index moves appPc, and a handler leaves the application's
\* position and locals alone
AppStep == appPc' # appPc

IsrStep == UNCHANGED appVars

\* C17 as stated (flushRx and flushTx aside): rxHead and txTail change only
\* in steps of the interrupt context, rxTail and txHead only in steps of
\* the application context.
C17_SingleWriterAsStated ==
    [][/\ rxHead' # rxHead => IsrStep
       /\ rxTail' # rxTail => AppStep
       /\ txHead' # txHead => AppStep
       /\ txTail' # txTail => IsrStep]_vars

\* C17 amended: rxHead has the interrupt context as its only writer, rxTail
\* and txHead the application context; txTail is written by the interrupt
\* context and also by the application context, in _startTxInterrupt()
\* called from write(), and there only while the port's handle is idle
\* with no transmit request outstanding.
C17_Step ==
    /\ rxHead' # rxHead => IsrStep
    /\ rxTail' # rxTail => AppStep
    /\ txHead' # txHead => AppStep
    /\ txTail' # txTail =>
           \/ IsrStep
           \/ /\ AppStep /\ appPc = "st_tail"
              /\ huart.txReq = 0 /\ huart.gState = "READY"

C17_SingleWriter == [][C17_Step]_vars

\* inside one write(data, len) a handler has dequeued a byte and then the
\* application, finding the transport idle, has dequeued the next itself
C17_Witness ==
    /\ appPc = "st_tx" /\ obs.txPre /\ loc.inLoop
    /\ Len(txSent) >= obs.acc0 + 2
    /\ huart.txReq = 0

\* C18: when flushTx() returns, txHead = txTail, whatever completions ran
\* before or during it (between its two stores included), and no byte is
\* dequeued and passed to a transmit request after the return until the
\* application writes again.
C18_FlushTx ==
    /\ obs.flushed = "tx" => txHead = txTail
    /\ obs.flushed # "sent"

\* C19: the byte the transport sends for a one-unit transmit request is
\* the byte that was dequeued from the outbound buffer for that request
\* (requests are served in the order they were made; none is refused when
\* the application only writes).
C19_WireIsDequeued ==
    /\ Len(wire) <= Len(txSent)
    /\ \A i \in 1..Len(wire) : wire[i] = txSent[i]

\* C20: when begin() ran while no port was registered for huart (the
\* constructor's registration did not match a peripheral) and a completion
\* was dispatched before registerInstance(), then after the registration
\* a receive request becomes outstanding again, with no further begin().
C20_LateRegistration == (lateReg = "missed") ~> (huart.rxReq = 1)

TypeOK ==
    /\ bufSize \in 2..MaxBufSize
    /\ rxHead \in 0..(bufSize - 1) /\ rxTail \in 0..(bufSize - 1)
    /\ txHead \in 0..(bufSize - 1) /\ txTail \in 0..(bufSize - 1)
    /\ huart.rxReq \in 0..2 /\ huart.txReq \in 0..2

====
